---- MODULE Spec2Model ----
(***************************************************************************)
(* IoT Smart Parking System: the ESP32 ultrasonic firmware                 *)
(* (esp32_ultrasonic.ino), its config.h, and the PostgreSQL schema         *)
(* (tables, CHECK constraints, the current_parking_status view, and the    *)
(* expire_old_reservations function).                                      *)
(*                                                                         *)
(* Distances are exact rationals.  measureDistance computes                *)
(* duration * 0.0343 / 2 = duration * 343 / 20000 cm, so a distance is     *)
(* kept as an integer number of 1/20000 cm (CmUnits per cm), and an        *)
(* average as a fraction [num, den] of such units.  Comparisons are made   *)
(* by cross-multiplication; float rounding of the C code is not modelled.  *)
(***************************************************************************)
EXTENDS Integers, Sequences, FiniteSets, TLC

VARIABLES
    \* ---- firmware globals (esp32_ultrasonic.ino) ----
    fw_pc,                 \* "setup" before setup() has run, then "loop"
    connected,             \* client.connected()
    due,                   \* millis() - last_measurement >= MEASUREMENT_INTERVAL
    current_occupied,      \* pending candidate
    previous_occupied,     \* published state
    consecutive_readings,  \* consecutive-match counter
    led,                   \* level last written to LED_PIN
    reading,               \* outcome of the last getAverageDistance call
    published,             \* client.publish calls made by the last handler
    hist,                  \* history: candidates of the valid readings so far
    \* ---- getAverageDistance as a function of one batch ----
    pulses,                \* the five pulseIn durations of a batch
    average,               \* its result; NotComputed before the call
    \* ---- database (schema.sql) ----
    spots,                 \* parking_spots rows
    reservations,          \* reservations rows, by id; NoRow = absent
    now,                   \* CURRENT_TIMESTAMP, in hours
    sweep_pc,              \* position inside expire_old_reservations
    expired_count,         \* its local variable / return value
    db_op,                 \* outcome of the last write to reservations
    view_rows,             \* result of SELECT ... FROM current_parking_status
    sensor_data,           \* sensor_data rows, in insertion (id SERIAL) order
    sensor_health,         \* sensor_health rows, by sensor_id
    \* ---- dashboard (ParkingMap.tsx) ----
    filters,               \* the filter options chosen; only status is used
    filteredSpots,         \* ids of the spots that pass the filters
    statusCounts,          \* result of getStatusCounts()
    \* ---- observation ----
    changes,               \* for each change of the published state, the
                           \* number of valid readings taken up to it
    sweep_obs              \* how far expire_old_reservations has run since
                           \* the last other write or clock tick

fwVars == <<fw_pc, connected, due, current_occupied, previous_occupied,
            consecutive_readings, led, reading, published, hist>>
filterVars == <<pulses, average>>
dbVars == <<spots, reservations, now, sweep_pc, expired_count, db_op, view_rows>>
ingestVars == <<sensor_data, sensor_health>>
uiVars == <<filters, filteredSpots, statusCounts>>
obsVars == <<changes, sweep_obs>>
vars == <<fwVars, filterVars, dbVars, ingestVars, uiVars, obsVars>>

----------------------------------------------------------------------------
(* Program constants *)

OCCUPIED_THRESHOLD_CM == 200
MEASUREMENT_SAMPLES == 5
DEBOUNCE_COUNT == 3
MIN_DISTANCE_CM == 2
MAX_DISTANCE_CM == 400
\* 0.0343 / 2 = SoundNum / CmUnits
SoundNum == 343
CmUnits == 20000

(* Bounds of the model *)
MaxReadings == 6

\* pulseIn results used as inputs: 0 = timeout, 58us ~ 0.99cm, 2624us ~ 45.0cm,
\* 14577us ~ 250.0cm, 23324us ~ 400.007cm.
PulseDurations == {0, 58, 2624, 14577, 23324}
FwDurations == {0, 2624, 14577}
SampleIdx == 1..MEASUREMENT_SAMPLES
Batches(D) == [SampleIdx -> D]
\* getAverageDistance does not depend on the order of the samples: the firmware
\* specification draws one batch per multiset of samples (the sorted one).
FwBatches ==
    {b \in Batches(FwDurations) :
        \A i \in 1..(MEASUREMENT_SAMPLES - 1) : b[i] <= b[i + 1]}

----------------------------------------------------------------------------
(* Sampling: measureDistance and getAverageDistance *)

Frac(n, d) == [num |-> n, den |-> d]
Cm(c) == c * CmUnits
\* f < c cm, f > c cm, for a fraction f with positive denominator
FracLess(f, c) == f.num < Cm(c) * f.den
NoReading == Frac(Cm(-1), 1)

measureDistance(duration) ==
    IF duration = 0 THEN Cm(-1) ELSE duration * SoundNum

SampleAccepted(distance) == distance > 0 /\ distance < Cm(400)

RECURSIVE AverageLoop(_, _, _, _)
AverageLoop(batch, i, total, valid_readings) ==
    IF i > MEASUREMENT_SAMPLES
    THEN <<total, valid_readings>>
    ELSE LET distance == measureDistance(batch[i])
         IN IF SampleAccepted(distance)
            THEN AverageLoop(batch, i + 1, total + distance, valid_readings + 1)
            ELSE AverageLoop(batch, i + 1, total, valid_readings)

getAverageDistance(batch) ==
    LET r == AverageLoop(batch, 1, 0, 0)
    IN IF r[2] = 0 THEN NoReading ELSE Frac(r[1], r[2])

\* round(distance * 100) / 100.0, in hundredths of a cm: round half up of
\* 100 * num / (CmUnits * den), with numerator and denominator divided by 200
RoundedCentimetres(f) ==
    (f.num + (CmUnits \div 200) * f.den) \div ((CmUnits \div 100) * f.den)

----------------------------------------------------------------------------
(* MQTT publishing *)

\* client.publish returns false when the client is not connected or the
\* write fails; net is the outcome of the write.
PublishOk(net) == connected /\ net

\* sent is what client.publish returned
publishSensorData(distance, occupied, sent) ==
    [topic |-> "status", ok |-> sent, occupied |-> occupied,
     distance_cm |-> RoundedCentimetres(distance)]

publishError(error_type, sent) ==
    [topic |-> "error", ok |-> sent, error |-> error_type]

publishStatus(status, sent) ==
    [topic |-> "heartbeat", ok |-> sent, status |-> status]

----------------------------------------------------------------------------
(* performSensorReading *)

IsOccupied(distance) == FracLess(distance, OCCUPIED_THRESHOLD_CM)

NextConsecutive_NoReset(is_occupied) == consecutive_readings + 1

NextConsecutive_ResetToTwo(is_occupied) ==
    IF is_occupied = current_occupied THEN consecutive_readings + 1 ELSE 2

NextConsecutive(is_occupied) ==
    IF is_occupied = current_occupied THEN consecutive_readings + 1 ELSE 1

NextCandidate(is_occupied) ==
    IF is_occupied = current_occupied THEN current_occupied ELSE is_occupied

CommitReady_Always(count) == TRUE

CommitReady_AtTwo(count) == count >= DEBOUNCE_COUNT - 1

CommitReady_Late(count) == count > DEBOUNCE_COUNT

CommitReady(count) == count >= DEBOUNCE_COUNT

ReadErrorBranch_ResetsCounter(distance, net) ==
    /\ published' = <<publishError("sensor_read_error", PublishOk(net))>>
    /\ reading' = [valid |-> FALSE, distance |-> distance]
    /\ consecutive_readings' = 0
    /\ UNCHANGED <<current_occupied, previous_occupied, led, hist>>

ReadErrorBranch_CountsReading(distance, net) ==
    /\ published' = <<publishError("sensor_read_error", PublishOk(net))>>
    /\ reading' = [valid |-> FALSE, distance |-> distance]
    /\ consecutive_readings' = consecutive_readings + 1
    /\ UNCHANGED <<current_occupied, previous_occupied, led, hist>>

ReadErrorBranch(distance, net) ==
    /\ published' = <<publishError("sensor_read_error", PublishOk(net))>>
    /\ reading' = [valid |-> FALSE, distance |-> distance]
    /\ UNCHANGED <<current_occupied, previous_occupied, consecutive_readings,
                   led, hist>>

DebounceBranch_PublishesOldState(distance, net) ==
    LET is_occupied == IsOccupied(distance)
        count == NextConsecutive(is_occupied)
        candidate == NextCandidate(is_occupied)
        commit == CommitReady(count)
        change == commit /\ candidate # previous_occupied
    IN /\ consecutive_readings' = count
       /\ current_occupied' = candidate
       /\ previous_occupied' = IF change THEN candidate ELSE previous_occupied
       /\ led' = IF change THEN (IF candidate THEN "HIGH" ELSE "LOW") ELSE led
       /\ published' = IF commit
                       THEN <<publishSensorData(distance, previous_occupied,
                                                 PublishOk(net))>>
                       ELSE <<>>
       /\ reading' = [valid |-> TRUE, distance |-> distance]
       /\ hist' = Append(hist, is_occupied)

DebounceBranch(distance, net) ==
    LET is_occupied == IsOccupied(distance)
        count == NextConsecutive(is_occupied)
        candidate == NextCandidate(is_occupied)
        commit == CommitReady(count)
        change == commit /\ candidate # previous_occupied
    IN /\ consecutive_readings' = count
       /\ current_occupied' = candidate
       /\ previous_occupied' = IF change THEN candidate ELSE previous_occupied
       /\ led' = IF change THEN (IF candidate THEN "HIGH" ELSE "LOW") ELSE led
       /\ published' = IF commit
                       THEN <<publishSensorData(distance, candidate,
                                                 PublishOk(net))>>
                       ELSE <<>>
       /\ reading' = [valid |-> TRUE, distance |-> distance]
       /\ hist' = Append(hist, is_occupied)

performSensorReading(batch, net) ==
    LET distance == getAverageDistance(batch)
    IN IF distance.num < 0
       THEN ReadErrorBranch(distance, net)
       ELSE DebounceBranch(distance, net)

----------------------------------------------------------------------------
(* setup(), loop(), reconnectMQTT() and the environment *)

FwInit ==
    /\ fw_pc = "setup"
    /\ connected = FALSE
    /\ due = FALSE
    /\ current_occupied = FALSE
    /\ previous_occupied = FALSE
    /\ consecutive_readings = 0
    /\ led = "LOW"
    /\ reading = [valid |-> FALSE, distance |-> NoReading]
    /\ published = <<>>
    /\ hist = <<>>

\* setup(): the initial reading, taken before any MQTT connection exists
Setup ==
    /\ fw_pc = "setup"
    /\ \E batch \in FwBatches, net \in BOOLEAN :
           performSensorReading(batch, net)
    /\ fw_pc' = "loop"
    /\ UNCHANGED <<connected, due>>

\* loop(): one connection attempt of reconnectMQTT's while loop
ReconnectMQTT ==
    /\ fw_pc = "loop"
    /\ ~connected
    /\ \E success \in BOOLEAN, net \in BOOLEAN :
           /\ connected' = success
           /\ published' = IF success
                           THEN <<publishStatus("online", net)>>
                           ELSE <<>>
    /\ UNCHANGED <<fw_pc, due, current_occupied, previous_occupied,
                   consecutive_readings, led, reading, hist>>

\* loop(): the measurement branch
LoopMeasure ==
    /\ fw_pc = "loop"
    /\ connected
    /\ due
    /\ Len(hist) < MaxReadings
    /\ \E batch \in FwBatches, net \in BOOLEAN :
           performSensorReading(batch, net)
    /\ due' = FALSE
    /\ UNCHANGED <<fw_pc, connected>>

IntervalElapses_AfterValidOnly ==
    /\ fw_pc = "loop"
    /\ ~due
    /\ reading.valid
    /\ due' = TRUE
    /\ UNCHANGED <<fw_pc, connected, current_occupied, previous_occupied,
                   consecutive_readings, led, reading, published, hist>>

\* MEASUREMENT_INTERVAL elapses
IntervalElapses ==
    /\ fw_pc = "loop"
    /\ ~due
    /\ due' = TRUE
    /\ UNCHANGED <<fw_pc, connected, current_occupied, previous_occupied,
                   consecutive_readings, led, reading, published, hist>>

\* the broker connection is lost
ConnectionLost ==
    /\ connected
    /\ connected' = FALSE
    /\ UNCHANGED <<fw_pc, due, current_occupied, previous_occupied,
                   consecutive_readings, led, reading, published, hist>>

\* values returned by getAverageDistance(): 250, 248, 252, 45 and 44 cm, and
\* the failure value -1
AveragedInputs ==
    {Frac(Cm(c), 1) : c \in {250, 248, 252, 45, 44}} \cup {NoReading}

\* performSensorReading from the point where getAverageDistance has returned
\* distance
performSensorReadingOf(distance, net) ==
    IF distance.num < 0
    THEN ReadErrorBranch(distance, net)
    ELSE DebounceBranch(distance, net)

\* setup() with the averaged reading given
SetupFed ==
    /\ fw_pc = "setup"
    /\ \E distance \in AveragedInputs, net \in BOOLEAN :
           performSensorReadingOf(distance, net)
    /\ fw_pc' = "loop"
    /\ UNCHANGED <<connected, due>>

\* the measurement branch of loop() with the averaged reading given
LoopMeasureFed ==
    /\ fw_pc = "loop"
    /\ connected
    /\ due
    /\ Len(hist) < MaxReadings
    /\ \E distance \in AveragedInputs, net \in BOOLEAN :
           performSensorReadingOf(distance, net)
    /\ due' = FALSE
    /\ UNCHANGED <<fw_pc, connected>>

\* no change of the published state has been observed, and no run of the
\* sweep
NoChanges == changes = <<>> /\ sweep_obs = "changed"

\* observation of a step: a change of previous_occupied is recorded with the
\* number of valid readings taken so far
ObserveChange ==
    /\ changes' = IF previous_occupied' # previous_occupied
                  THEN Append(changes, Len(hist'))
                  ELSE changes
    /\ UNCHANGED sweep_obs

----------------------------------------------------------------------------
(* getAverageDistance applied to one batch *)

NotComputed == Frac(0, 0)

FilterInit ==
    /\ pulses \in Batches(PulseDurations)
    /\ average = NotComputed

ApplyFilter ==
    /\ average = NotComputed
    /\ average' = getAverageDistance(pulses)
    /\ UNCHANGED pulses

----------------------------------------------------------------------------
(* Database: tables, CHECK constraints and views of schema.sql.            *)
(* Timestamps are whole hours.                                             *)

\* INTERVAL '1 hour' of expire_old_reservations
GraceHours == 1

(* Bounds of the model *)
MaxTime == 4

\* the sample rows' keys; reservation ids are handed out in this order
SpotIds == {"PARK_001", "PARK_002"}
ReservationIds == <<"RES_001", "RES_002">>
Times == 0..MaxTime
DurationInputs == {0, 1}
\* the rows present: reservations[i] has id ReservationIds[i]
ResIds == 1..Len(reservations)

\* parking_spots column defaults; last_updated DEFAULT CURRENT_TIMESTAMP of the
\* load, which is time 0
DefaultSpot ==
    [is_occupied |-> FALSE, is_reserved |-> FALSE, is_disabled |-> FALSE,
     last_updated |-> 0]

chk_time_order_None(r) == TRUE

chk_time_order(r) == r.end_time > r.start_time

chk_duration(r) == r.duration_hours > 0

\* the outcome of a write of row r: the first violated CHECK constraint
\* (PostgreSQL checks them in name order), or "accepted"
WriteOutcome(r) ==
    IF ~chk_duration(r) THEN "chk_duration"
    ELSE IF ~chk_time_order(r) THEN "chk_time_order"
    ELSE "accepted"

\* a new row: status DEFAULT 'active'
NewReservation(spot, start, end, hours) ==
    [spot_id |-> spot, start_time |-> start, end_time |-> end,
     duration_hours |-> hours, status |-> "active"]

\* an active reservation whose window [start_time, end_time) includes now
CoversNow(r) ==
    r.status = "active" /\ r.start_time <= now /\ now < r.end_time

\* the booking flow marks the spot reserved on create
setReserved(spot, flag) == [spots EXCEPT ![spot].is_reserved = flag]

\* POST /api/reservations: INSERT INTO reservations, then the reserved flag
createReservation ==
    /\ Len(reservations) < Len(ReservationIds)
    /\ \E spot \in SpotIds, start \in Times, end \in Times,
          hours \in DurationInputs :
           LET r == NewReservation(spot, start, end, hours)
           IN /\ db_op' = WriteOutcome(r)
              /\ IF WriteOutcome(r) = "accepted"
                 THEN /\ reservations' = Append(reservations, r)
                      /\ spots' = setReserved(spot, TRUE)
                 ELSE UNCHANGED <<reservations, spots>>
    /\ UNCHANGED <<now, sweep_pc, expired_count, view_rows>>

\* PUT /api/reservations/{id}: UPDATE reservations SET end_time
updateReservation ==
    /\ \E id \in ResIds, end \in Times :
           LET r == [reservations[id] EXCEPT !.end_time = end]
           IN /\ r # reservations[id]
              /\ db_op' = WriteOutcome(r)
              /\ IF WriteOutcome(r) = "accepted"
                 THEN reservations' = [reservations EXCEPT ![id] = r]
                 ELSE UNCHANGED reservations
    /\ UNCHANGED <<spots, now, sweep_pc, expired_count, view_rows>>

\* DELETE /api/reservations/{id}: status = 'cancelled'; the reserved flag is
\* cleared unless another active reservation of the spot covers now
cancelReservation ==
    /\ \E id \in ResIds :
           /\ reservations[id].status = "active"
           /\ LET after == [reservations EXCEPT ![id].status = "cancelled"]
                  spot == reservations[id].spot_id
                  held == \E j \in ResIds :
                              after[j].spot_id = spot /\ CoversNow(after[j])
              IN /\ reservations' = after
                 /\ spots' = IF held THEN spots ELSE setReserved(spot, FALSE)
    /\ UNCHANGED <<now, sweep_pc, expired_count, db_op, view_rows>>

\* check-out: status = 'completed' by explicit user or admin action
completeReservation ==
    /\ \E id \in ResIds :
           /\ reservations[id].status = "active"
           /\ reservations' = [reservations EXCEPT ![id].status = "completed"]
    /\ UNCHANGED <<spots, now, sweep_pc, expired_count, db_op, view_rows>>

\* CURRENT_TIMESTAMP advances
Tick ==
    /\ now < MaxTime
    /\ now' = now + 1
    /\ UNCHANGED <<spots, reservations, sweep_pc, expired_count, db_op,
                   view_rows>>

----------------------------------------------------------------------------
(* expire_old_reservations(): two statements, each on its own snapshot, so *)
(* other transactions may commit between them                              *)

ExpiryDue_NoGrace(r) == r.status = "active" /\ r.end_time < now

ExpiryDue_ActiveOrExpired(r) ==
    r.status \in {"active", "expired"} /\ r.end_time < now - GraceHours

ExpiryDue_AnyStatus(r) == r.end_time < now - GraceHours

ExpiryDue(r) == r.status = "active" /\ r.end_time < now - GraceHours

ExpireUpdateReservations_ResetsEnd ==
    /\ sweep_pc = "idle"
    /\ reservations' = [id \in ResIds |->
                           IF ExpiryDue(reservations[id])
                           THEN [reservations[id] EXCEPT !.status = "expired",
                                                         !.end_time = now]
                           ELSE reservations[id]]
    /\ expired_count' = Cardinality({id \in ResIds : ExpiryDue(reservations[id])})
    /\ sweep_pc' = "free_spots"
    /\ UNCHANGED <<spots, now, db_op, view_rows>>

\* UPDATE reservations SET status = 'expired' WHERE ...; GET DIAGNOSTICS
ExpireUpdateReservations ==
    /\ sweep_pc = "idle"
    /\ reservations' = [id \in ResIds |->
                           IF ExpiryDue(reservations[id])
                           THEN [reservations[id] EXCEPT !.status = "expired"]
                           ELSE reservations[id]]
    /\ expired_count' = Cardinality({id \in ResIds : ExpiryDue(reservations[id])})
    /\ sweep_pc' = "free_spots"
    /\ UNCHANGED <<spots, now, db_op, view_rows>>

\* id IN (SELECT spot_id FROM reservations WHERE status = 'expired' AND
\* is_reserved = TRUE): reservations has no is_reserved column, so the name
\* refers to the parking_spots row being updated
FreedBySweep(spot) ==
    \E id \in ResIds :
        /\ reservations[id].status = "expired"
        /\ spots[spot].is_reserved = TRUE
        /\ reservations[id].spot_id = spot

ExpireFreeSpots_ResetsRow ==
    /\ sweep_pc = "free_spots"
    /\ spots' = [spot \in SpotIds |->
                    IF FreedBySweep(spot)
                    THEN [DefaultSpot EXCEPT
                             !.is_disabled = spots[spot].is_disabled]
                    ELSE spots[spot]]
    /\ sweep_pc' = "idle"
    /\ expired_count' = 0
    /\ UNCHANGED <<reservations, now, db_op, view_rows>>

\* UPDATE parking_spots SET is_reserved = FALSE WHERE id IN (...); RETURN
ExpireFreeSpots ==
    /\ sweep_pc = "free_spots"
    /\ spots' = [spot \in SpotIds |->
                    IF FreedBySweep(spot)
                    THEN [spots[spot] EXCEPT !.is_reserved = FALSE]
                    ELSE spots[spot]]
    /\ sweep_pc' = "idle"
    /\ expired_count' = 0
    /\ UNCHANGED <<reservations, now, db_op, view_rows>>

\* observation of a step of the database: the statements of the sweep are
\* counted while they follow one another; any other step starts over.
\* "first_done" is the state a run has left behind with nothing written and
\* no tick since it began; "second_update" is a further run begun there or
\* after such a further run, and "second_done" its end.
ObserveSweep ==
    /\ sweep_obs' =
           IF sweep_pc = "idle" /\ sweep_pc' = "free_spots"
           THEN (IF sweep_obs \in {"first_done", "second_done"}
                 THEN "second_update"
                 ELSE "first_update")
           ELSE IF sweep_pc = "free_spots" /\ sweep_pc' = "idle"
           THEN (IF sweep_obs = "first_update" THEN "first_done"
                 ELSE IF sweep_obs = "second_update" THEN "second_done"
                 ELSE "changed")
           ELSE "changed"
    /\ UNCHANGED changes

----------------------------------------------------------------------------
(* current_parking_status view *)

SpotStatus_OccupiedFirst(ps) ==
    IF ps.is_occupied THEN "occupied"
    ELSE IF ps.is_disabled THEN "disabled"
    ELSE IF ps.is_reserved THEN "reserved"
    ELSE "available"

SpotStatus(ps) ==
    IF ps.is_disabled THEN "disabled"
    ELSE IF ps.is_occupied THEN "occupied"
    ELSE IF ps.is_reserved THEN "reserved"
    ELSE "available"

current_parking_status ==
    [id \in SpotIds |->
        [is_occupied |-> spots[id].is_occupied,
         is_reserved |-> spots[id].is_reserved,
         is_disabled |-> spots[id].is_disabled,
         last_updated |-> spots[id].last_updated,
         status |-> SpotStatus(spots[id])]]

NotQueried == [id \in SpotIds |-> [status |-> "none"]]

\* SELECT * FROM current_parking_status
SelectCurrentStatus ==
    /\ view_rows = NotQueried
    /\ view_rows' = current_parking_status
    /\ UNCHANGED <<spots, reservations, now, sweep_pc, expired_count, db_op>>

----------------------------------------------------------------------------
(* ParkingMap: the status filter and the status summary of the dashboard *)

\* filters.status: '' (no filter) or the status asked for
StatusFilters == {"", "available", "occupied", "reserved", "disabled"}

\* const status = spot.is_occupied ? 'occupied' :
\*                spot.is_reserved ? 'reserved' : 'available'
MapStatus(spot) ==
    IF spot.is_occupied THEN "occupied"
    ELSE IF spot.is_reserved THEN "reserved"
    ELSE "available"

\* the status filter of allSpots.filter(...); the search, level, zone and
\* sensor type filters are left empty
PassesFilters(spot, f) ==
    IF f.status # "" /\ MapStatus(spot) # f.status THEN FALSE ELSE TRUE

\* the three predicates of getStatusCounts
CountedAvailable(spot) == ~spot.is_occupied /\ ~spot.is_reserved
CountedOccupied(spot) == spot.is_occupied
CountedReserved(spot) == spot.is_reserved

getStatusCounts(shown) ==
    [available |-> Cardinality({id \in shown : CountedAvailable(spots[id])}),
     occupied |-> Cardinality({id \in shown : CountedOccupied(spots[id])}),
     reserved |-> Cardinality({id \in shown : CountedReserved(spots[id])}),
     total |-> Cardinality(shown)]

\* the component before the spots query has returned: allSpots = []
MapIdle ==
    /\ filters = [status |-> ""]
    /\ filteredSpots = {}
    /\ statusCounts = [available |-> 0, occupied |-> 0, reserved |-> 0,
                       total |-> 0]

\* one render of ParkingMap on the rows of GET /api/spots, with the status
\* filter the user has chosen
RenderParkingMap ==
    /\ \E status \in StatusFilters :
           LET f == [status |-> status]
               shown == {id \in DOMAIN spots : PassesFilters(spots[id], f)}
           IN /\ filters' = f
              /\ filteredSpots' = shown
              /\ statusCounts' = getStatusCounts(shown)
    /\ UNCHANGED dbVars

----------------------------------------------------------------------------
(* Ingestion: INSERT INTO sensor_data and the trigger update_spot_from_sensor *)

(* Bounds of the model *)
MaxRows == 2

\* distance_cm is nullable (magnetic and camera sensors send none)
NoDistance == -1
\* distance_cm DECIMAL(6,2), in hundredths of a cm: NULL, 195.80 and 250.50 of
\* the sample rows
DistanceInputs == {NoDistance, 19580, 25050}

\* hours between a reading's timestamp and its arrival
Delays == {0, 1}

\* NULL in an INTEGER column (battery_level is 0..100, signal_strength is in
\* dBm)
NoValue == -1000
\* <<battery_level, signal_strength>> of a reading: both as in the sample
\* rows, none, or one of the two
VitalsInputs ==
    {<<85, -45>>, <<NoValue, NoValue>>, <<92, NoValue>>, <<NoValue, -38>>}

\* sensor_health has no row for the sensor
NoHealth ==
    [present |-> FALSE, last_data_received |-> 0, updated_at |-> 0,
     battery_level |-> NoValue, signal_strength |-> NoValue]

\* the row of an INSERT INTO sensor_data (sensor_id, timestamp, occupied,
\* distance_cm, battery_level, signal_strength)
NewSensorData(sensor, ts, occupied, distance, battery, signal) ==
    [sensor_id |-> sensor, timestamp |-> ts, occupied |-> occupied,
     distance_cm |-> distance, battery_level |-> battery,
     signal_strength |-> signal]

\* COALESCE(a, b): the first argument that is not NULL
COALESCE(a, b) == IF a # NoValue THEN a ELSE b

SpotAfterReading_OccupiedOnly(ps, new_row) == [ps EXCEPT !.is_occupied = new_row.occupied]

SpotAfterReading_ClearsReserved(ps, new_row) ==
    [ps EXCEPT !.is_occupied = new_row.occupied, !.last_updated = new_row.timestamp,
               !.is_reserved = FALSE]

\* UPDATE parking_spots SET is_occupied = NEW.occupied,
\*                          last_updated = NEW.timestamp
SpotAfterReading(ps, new_row) ==
    [ps EXCEPT !.is_occupied = new_row.occupied, !.last_updated = new_row.timestamp]

HealthAfterReading_Overwrites(sh, new_row) ==
    [present |-> TRUE, last_data_received |-> new_row.timestamp,
     updated_at |-> now, battery_level |-> new_row.battery_level,
     signal_strength |-> new_row.signal_strength]

\* INSERT INTO sensor_health ... ON CONFLICT (sensor_id) DO UPDATE
HealthAfterReading(sh, new_row) ==
    IF sh.present
    THEN [present |-> TRUE, last_data_received |-> new_row.timestamp,
          updated_at |-> now,
          battery_level |-> COALESCE(new_row.battery_level, sh.battery_level),
          signal_strength |->
              COALESCE(new_row.signal_strength, sh.signal_strength)]
    ELSE [present |-> TRUE, last_data_received |-> new_row.timestamp,
          updated_at |-> now, battery_level |-> new_row.battery_level,
          signal_strength |-> new_row.signal_strength]

\* the AFTER INSERT ... FOR EACH ROW trigger, in the INSERT's transaction
update_spot_from_sensor(new_row) ==
    /\ spots' = [id \in DOMAIN spots |->
                    IF id = new_row.sensor_id
                    THEN SpotAfterReading(spots[id], new_row)
                    ELSE spots[id]]
    /\ sensor_health' = [sensor_health EXCEPT ![new_row.sensor_id] =
                            HealthAfterReading(sensor_health[new_row.sensor_id], new_row)]

\* one reading arrives and is stored; its timestamp is the sensor's, so a
\* delayed message carries an earlier one.  sensor_id REFERENCES
\* parking_spots(id): a row for a missing spot is refused.
InsertSensorDataWith(Distances, Vitals) ==
    /\ Len(sensor_data) < MaxRows
    /\ \E sensor \in DOMAIN spots, delay \in Delays, occupied \in BOOLEAN,
          distance \in Distances, vitals \in Vitals :
           LET ts == IF now >= delay THEN now - delay ELSE now
               new_row == NewSensorData(sensor, ts, occupied, distance,
                                        vitals[1], vitals[2])
           IN /\ sensor_data' = Append(sensor_data, new_row)
              /\ update_spot_from_sensor(new_row)
    /\ UNCHANGED <<reservations, now, sweep_pc, expired_count, db_op, view_rows>>

\* a reading that carries neither battery_level nor signal_strength
InsertSensorData(Distances) ==
    InsertSensorDataWith(Distances, {<<NoValue, NoValue>>})

\* DELETE /api/spots/{id}: DELETE FROM parking_spots, with the ON DELETE
\* CASCADE of sensor_data.sensor_id, reservations.spot_id and
\* sensor_health.sensor_id
deleteSpot ==
    /\ \E spot \in DOMAIN spots :
           /\ spots' = [id \in DOMAIN spots \ {spot} |-> spots[id]]
           /\ sensor_data' = SelectSeq(sensor_data,
                                       LAMBDA row : row.sensor_id # spot)
           /\ reservations' = SelectSeq(reservations,
                                        LAMBDA r : r.spot_id # spot)
           /\ sensor_health' = [id \in DOMAIN sensor_health \ {spot} |->
                                   sensor_health[id]]
    /\ UNCHANGED <<now, sweep_pc, expired_count, db_op, view_rows>>

----------------------------------------------------------------------------
(* Initial states *)

\* the state at time 0 with no reservation, or after one createReservation
\* for the first hour; PARK_001 may be disabled for maintenance
BookedInit ==
    /\ reservations \in
           {<<>>} \cup {<<NewReservation(id, 0, 1, 1)>> : id \in SpotIds}
    /\ \E disabled \in {{}, {"PARK_001"}} :
           spots = [id \in SpotIds |->
                       [DefaultSpot EXCEPT
                           !.is_reserved = (\E i \in 1..Len(reservations) :
                                               reservations[i].spot_id = id),
                           !.is_disabled = (id \in disabled)]]
    /\ now = 0
    /\ sweep_pc = "idle"
    /\ expired_count = 0
    /\ db_op = "none"
    /\ view_rows = NotQueried

IngestIdle ==
    /\ sensor_data = <<>>
    /\ sensor_health = [id \in SpotIds |-> NoHealth]

FilterIdle == pulses = [i \in SampleIdx |-> 0] /\ average = NotComputed

DbInit ==
    /\ spots = [id \in SpotIds |-> DefaultSpot]
    /\ reservations = <<>>
    /\ now = 0
    /\ sweep_pc = "idle"
    /\ expired_count = 0
    /\ db_op = "none"
    /\ view_rows = NotQueried

\* any combination of the three flags on every spot
ViewInit ==
    /\ spots \in [SpotIds -> [is_occupied : BOOLEAN, is_reserved : BOOLEAN,
                              is_disabled : BOOLEAN, last_updated : {0}]]
    /\ reservations = <<>>
    /\ now = 0
    /\ sweep_pc = "idle"
    /\ expired_count = 0
    /\ db_op = "none"
    /\ view_rows = NotQueried

----------------------------------------------------------------------------
(* Specifications *)

\* the firmware
Init == FwInit /\ FilterIdle /\ DbInit /\ IngestIdle /\ MapIdle /\ NoChanges

Next ==
    \/ Setup /\ UNCHANGED <<filterVars, dbVars, ingestVars, uiVars, obsVars>>
    \/ ReconnectMQTT /\ UNCHANGED <<filterVars, dbVars, ingestVars, uiVars, obsVars>>
    \/ LoopMeasure /\ UNCHANGED <<filterVars, dbVars, ingestVars, uiVars, obsVars>>
    \/ IntervalElapses /\ UNCHANGED <<filterVars, dbVars, ingestVars, uiVars, obsVars>>
    \/ ConnectionLost /\ UNCHANGED <<filterVars, dbVars, ingestVars, uiVars, obsVars>>

Spec == Init /\ [][Next]_vars

\* the firmware as the runtime schedules it: millis() advances, and loop() is
\* called again and again, so the measurement branch runs whenever loop() gets
\* past reconnectMQTT with the interval elapsed.  Whether client.connect ever
\* succeeds is the broker's doing: nothing is assumed of it.
LoopFairness ==
    /\ WF_vars(IntervalElapses /\ UNCHANGED <<filterVars, dbVars, ingestVars, uiVars, obsVars>>)
    /\ SF_vars(LoopMeasure /\ UNCHANGED <<filterVars, dbVars, ingestVars, uiVars, obsVars>>)

SpecLive == Init /\ [][Next]_vars /\ LoopFairness

\* the firmware, with the changes of the published state observed
InitObserved ==
    FwInit /\ FilterIdle /\ DbInit /\ IngestIdle /\ MapIdle /\ NoChanges

NextObserved ==
    \/ Setup /\ ObserveChange
          /\ UNCHANGED <<filterVars, dbVars, ingestVars, uiVars>>
    \/ ReconnectMQTT /\ ObserveChange
          /\ UNCHANGED <<filterVars, dbVars, ingestVars, uiVars>>
    \/ LoopMeasure /\ ObserveChange
          /\ UNCHANGED <<filterVars, dbVars, ingestVars, uiVars>>
    \/ IntervalElapses /\ ObserveChange
          /\ UNCHANGED <<filterVars, dbVars, ingestVars, uiVars>>
    \/ ConnectionLost /\ ObserveChange
          /\ UNCHANGED <<filterVars, dbVars, ingestVars, uiVars>>

SpecObserved == InitObserved /\ [][NextObserved]_vars

\* the firmware fed with averaged readings
InitFed == FwInit /\ FilterIdle /\ DbInit /\ IngestIdle /\ MapIdle /\ NoChanges

NextFed ==
    \/ SetupFed /\ UNCHANGED <<filterVars, dbVars, ingestVars, uiVars, obsVars>>
    \/ ReconnectMQTT /\ UNCHANGED <<filterVars, dbVars, ingestVars, uiVars, obsVars>>
    \/ LoopMeasureFed /\ UNCHANGED <<filterVars, dbVars, ingestVars, uiVars, obsVars>>
    \/ IntervalElapses /\ UNCHANGED <<filterVars, dbVars, ingestVars, uiVars, obsVars>>
    \/ ConnectionLost /\ UNCHANGED <<filterVars, dbVars, ingestVars, uiVars, obsVars>>

SpecFed == InitFed /\ [][NextFed]_vars

\* getAverageDistance on every batch
InitFilter == FilterInit /\ FwInit /\ DbInit /\ IngestIdle /\ MapIdle /\ NoChanges

FilterNext == ApplyFilter /\ UNCHANGED <<fwVars, dbVars, ingestVars, uiVars, obsVars>>

SpecFilter == InitFilter /\ [][FilterNext]_vars

\* the reservations table, the booking calls and the expiry sweep
InitDB == FwInit /\ FilterIdle /\ DbInit /\ IngestIdle /\ MapIdle /\ NoChanges

NextDB ==
    \/ createReservation /\ UNCHANGED <<fwVars, filterVars, ingestVars, uiVars, obsVars>>
    \/ updateReservation /\ UNCHANGED <<fwVars, filterVars, ingestVars, uiVars, obsVars>>
    \/ cancelReservation /\ UNCHANGED <<fwVars, filterVars, ingestVars, uiVars, obsVars>>
    \/ completeReservation /\ UNCHANGED <<fwVars, filterVars, ingestVars, uiVars, obsVars>>
    \/ Tick /\ UNCHANGED <<fwVars, filterVars, ingestVars, uiVars, obsVars>>
    \/ ExpireUpdateReservations /\ UNCHANGED <<fwVars, filterVars, ingestVars, uiVars, obsVars>>
    \/ ExpireFreeSpots /\ UNCHANGED <<fwVars, filterVars, ingestVars, uiVars, obsVars>>

SpecDB == InitDB /\ [][NextDB]_vars

\* the booking calls and the sweep, with the runs of the sweep observed
InitSweep ==
    FwInit /\ FilterIdle /\ DbInit /\ IngestIdle /\ MapIdle /\ NoChanges

NextSweep ==
    \/ createReservation /\ ObserveSweep
          /\ UNCHANGED <<fwVars, filterVars, ingestVars, uiVars>>
    \/ cancelReservation /\ ObserveSweep
          /\ UNCHANGED <<fwVars, filterVars, ingestVars, uiVars>>
    \/ Tick /\ ObserveSweep
          /\ UNCHANGED <<fwVars, filterVars, ingestVars, uiVars>>
    \/ ExpireUpdateReservations /\ ObserveSweep
          /\ UNCHANGED <<fwVars, filterVars, ingestVars, uiVars>>
    \/ ExpireFreeSpots /\ ObserveSweep
          /\ UNCHANGED <<fwVars, filterVars, ingestVars, uiVars>>

SpecSweep == InitSweep /\ [][NextSweep]_vars

\* the current_parking_status view on every combination of flags
InitView == FwInit /\ FilterIdle /\ ViewInit /\ IngestIdle /\ MapIdle /\ NoChanges

NextView == SelectCurrentStatus /\ UNCHANGED <<fwVars, filterVars, ingestVars, uiVars, obsVars>>

SpecView == InitView /\ [][NextView]_vars

\* the dashboard's map on every combination of flags
InitMap == FwInit /\ FilterIdle /\ ViewInit /\ IngestIdle /\ MapIdle /\ NoChanges

NextMap ==
    RenderParkingMap /\ UNCHANGED <<fwVars, filterVars, ingestVars, obsVars>>

SpecMap == InitMap /\ [][NextMap]_vars

\* ingestion of readings, interleaved with cancellation and the sweep
InitIngest == FwInit /\ FilterIdle /\ BookedInit /\ IngestIdle /\ MapIdle /\ NoChanges

NextIngest ==
    \/ InsertSensorData({NoDistance}) /\ UNCHANGED <<fwVars, filterVars, uiVars, obsVars>>
    \/ cancelReservation /\ UNCHANGED <<fwVars, filterVars, ingestVars, uiVars, obsVars>>
    \/ Tick /\ UNCHANGED <<fwVars, filterVars, ingestVars, uiVars, obsVars>>
    \/ ExpireUpdateReservations /\ UNCHANGED <<fwVars, filterVars, ingestVars, uiVars, obsVars>>
    \/ ExpireFreeSpots /\ UNCHANGED <<fwVars, filterVars, ingestVars, uiVars, obsVars>>

SpecIngest == InitIngest /\ [][NextIngest]_vars

\* a reader of current_parking_status, interleaved with ingestion and
\* cancellation
InitRead == FwInit /\ FilterIdle /\ BookedInit /\ IngestIdle /\ MapIdle /\ NoChanges

NextRead ==
    \/ InsertSensorData({NoDistance}) /\ UNCHANGED <<fwVars, filterVars, uiVars, obsVars>>
    \/ SelectCurrentStatus /\ UNCHANGED <<fwVars, filterVars, ingestVars, uiVars, obsVars>>
    \/ cancelReservation /\ UNCHANGED <<fwVars, filterVars, ingestVars, uiVars, obsVars>>
    \/ Tick /\ UNCHANGED <<fwVars, filterVars, ingestVars, uiVars, obsVars>>

SpecRead == InitRead /\ [][NextRead]_vars

\* the trigger on readings with and without a distance
InitTrigger == FwInit /\ FilterIdle /\ DbInit /\ IngestIdle /\ MapIdle /\ NoChanges

NextTrigger ==
    \/ InsertSensorData(DistanceInputs) /\ UNCHANGED <<fwVars, filterVars, uiVars, obsVars>>
    \/ Tick /\ UNCHANGED <<fwVars, filterVars, ingestVars, uiVars, obsVars>>

SpecTrigger == InitTrigger /\ [][NextTrigger]_vars

\* the sensor_health table under readings with and without battery_level and
\* signal_strength
InitHealth == FwInit /\ FilterIdle /\ DbInit /\ IngestIdle /\ MapIdle /\ NoChanges

NextHealth ==
    \/ InsertSensorDataWith({NoDistance}, VitalsInputs)
           /\ UNCHANGED <<fwVars, filterVars, uiVars, obsVars>>
    \/ Tick /\ UNCHANGED <<fwVars, filterVars, ingestVars, uiVars, obsVars>>

SpecHealth == InitHealth /\ [][NextHealth]_vars

\* the sensor_data table under inserts and spot deletion
InitHistory == FwInit /\ FilterIdle /\ DbInit /\ IngestIdle /\ MapIdle /\ NoChanges

NextHistory ==
    \/ InsertSensorData(DistanceInputs) /\ UNCHANGED <<fwVars, filterVars, uiVars, obsVars>>
    \/ deleteSpot /\ UNCHANGED <<fwVars, filterVars, uiVars, obsVars>>
    \/ Tick /\ UNCHANGED <<fwVars, filterVars, ingestVars, uiVars, obsVars>>

SpecHistory == InitHistory /\ [][NextHistory]_vars

----------------------------------------------------------------------------
(* Claims about the firmware *)

\* a step in which performSensorReading ran (from setup() or from loop())
ReadingStep == (fw_pc = "setup" /\ fw_pc' = "loop") \/ (due /\ ~due')

\* the last DEBOUNCE_COUNT valid readings all had candidate c
SameRun(h, c) ==
    /\ Len(h) >= DEBOUNCE_COUNT
    /\ \A i \in (Len(h) - DEBOUNCE_COUNT + 1)..Len(h) : h[i] = c

\* C1: the published state previous_occupied changes only when the same
\* candidate was observed on the last DEBOUNCE_COUNT consecutive valid
\* readings, and a valid reading whose candidate differs from the pending
\* candidate sets consecutive_readings to 1.
C1_DebouncedChange ==
    [][/\ previous_occupied' # previous_occupied
            => SameRun(hist', previous_occupied')
       /\ (Len(hist') = Len(hist) + 1 /\ hist'[Len(hist')] # current_occupied)
            => consecutive_readings' = 1]_vars

\* the published state has changed to OCCUPIED and a later differing reading
\* has reset the counter
C1_Witness ==
    /\ previous_occupied
    /\ ~current_occupied
    /\ consecutive_readings = 1
    /\ Len(hist) > DEBOUNCE_COUNT

\* the range the claim names, [MIN_DISTANCE_CM, MAX_DISTANCE_CM]
InNamedRange(distance) ==
    distance >= Cm(MIN_DISTANCE_CM) /\ distance <= Cm(MAX_DISTANCE_CM)

RECURSIVE SumDistances(_, _)
SumDistances(batch, S) ==
    IF S = {} THEN 0
    ELSE LET i == CHOOSE x \in S : TRUE
         IN measureDistance(batch[i]) + SumDistances(batch, S \ {i})

\* C2: getAverageDistance returns the mean of exactly the samples within
\* [MIN_DISTANCE_CM, MAX_DISTANCE_CM], and fails exactly when there is none.
C2_MeanOfNamedRange ==
    average # NotComputed =>
        LET S == {i \in SampleIdx : InNamedRange(measureDistance(pulses[i]))}
        IN IF S = {}
           THEN average = NoReading
           ELSE /\ average # NoReading
                /\ average.num * Cardinality(S)
                     = SumDistances(pulses, S) * average.den

\* C3: a cycle whose averaged reading fails leaves the debounce state
\* unchanged and makes exactly one publish call, on the error topic, and
\* none on the status topic.
C3_ReadErrorLeavesState ==
    [][(ReadingStep /\ ~reading'.valid) =>
          /\ UNCHANGED <<consecutive_readings, current_occupied,
                         previous_occupied>>
          /\ Len(published') = 1
          /\ published'[1].topic = "error"]_vars

\* a failed cycle in the middle of a pending transition
C3_Witness ==
    /\ fw_pc = "loop"
    /\ ~reading.valid
    /\ consecutive_readings = 2
    /\ current_occupied # previous_occupied
    /\ Len(published) = 1
    /\ published[1].topic = "error"

\* the last handler published one status message carrying the reading's
\* distance and its instantaneous candidate
StatusPublished ==
    /\ Len(published) = 1
    /\ published[1].topic = "status"
    /\ published[1].occupied = IsOccupied(reading.distance)
    /\ published[1].distance_cm = RoundedCentimetres(reading.distance)

\* C4 as stated: every valid averaged reading publishes a raw-reading event
\* with the distance and the candidate, whatever the counter.
C4_EveryValidReadingPublished ==
    [][(ReadingStep /\ reading'.valid) => StatusPublished']_vars

\* C4 amended: a valid averaged reading publishes a status message with the
\* distance and the candidate exactly when the counter has reached
\* DEBOUNCE_COUNT on that reading, and publishes nothing otherwise.
C4_PublishedIffDebounced ==
    [][(ReadingStep /\ reading'.valid) =>
          IF consecutive_readings' >= DEBOUNCE_COUNT
          THEN StatusPublished'
          ELSE published' = <<>>]_vars

\* a debounced reading whose status message was handed to the broker
C4_Witness ==
    /\ reading.valid
    /\ consecutive_readings >= DEBOUNCE_COUNT
    /\ StatusPublished
    /\ published[1].ok

\* the last handler made one publish call on the status topic and
\* client.publish returned false
StatusPublishFailed ==
    /\ Len(published) = 1
    /\ published[1].topic = "status"
    /\ ~published[1].ok

\* C18: a status message whose publish failed is sent again by the next
\* measurement cycle.
C18_FailedPublishRetried ==
    [][(StatusPublishFailed /\ ReadingStep) =>
          \E i \in 1..Len(published') :
              /\ published'[i].topic = "status"
              /\ published'[i].occupied = published[1].occupied
              /\ published'[i].distance_cm = published[1].distance_cm]_vars

\* the last cycle of loop() failed: no valid reading, or a publish call that
\* returned false
FailedCycle ==
    /\ fw_pc = "loop"
    /\ \/ ~reading.valid
       \/ Len(published) = 1 /\ ~published[1].ok

\* a further performSensorReading from loop(): the interval elapses and the
\* measurement branch runs
FurtherReading == <>(due /\ <>(~due))

----------------------------------------------------------------------------
(* Claims about the database *)

\* C5: the status of the current_parking_status view is one of disabled,
\* occupied, reserved, available, chosen with the precedence
\* disabled > occupied > reserved > available, for every combination of
\* is_disabled, is_occupied and is_reserved.
C5_StatusPrecedence ==
    \A id \in SpotIds :
        view_rows[id].status # "none" =>
            /\ view_rows[id].status
                 \in {"disabled", "occupied", "reserved", "available"}
            /\ spots[id].is_disabled => view_rows[id].status = "disabled"
            /\ (~spots[id].is_disabled /\ spots[id].is_occupied)
                 => view_rows[id].status = "occupied"
            /\ (~spots[id].is_disabled /\ ~spots[id].is_occupied
                  /\ spots[id].is_reserved)
                 => view_rows[id].status = "reserved"
            /\ (~spots[id].is_disabled /\ ~spots[id].is_occupied
                  /\ ~spots[id].is_reserved)
                 => view_rows[id].status = "available"

\* the view queried with all three flags set on one spot and only the
\* reserved flag set on the other
C5_Witness ==
    /\ spots["PARK_001"].is_disabled
    /\ spots["PARK_001"].is_occupied
    /\ spots["PARK_001"].is_reserved
    /\ view_rows["PARK_001"].status = "disabled"
    /\ ~spots["PARK_002"].is_disabled
    /\ ~spots["PARK_002"].is_occupied
    /\ spots["PARK_002"].is_reserved
    /\ view_rows["PARK_002"].status = "reserved"

\* the first statement of expire_old_reservations ran
SweepUpdateStep == sweep_pc = "idle" /\ sweep_pc' = "free_spots"

\* the second statement of expire_old_reservations ran
SweepFreeStep == sweep_pc = "free_spots" /\ sweep_pc' = "idle"

\* C6: a run of expire_old_reservations moves a reservation to 'expired'
\* if and only if it was 'active' and end_time + 1 hour is strictly before
\* now.
C6_ExpiresExactlyDue ==
    [][SweepUpdateStep =>
          \A id \in ResIds :
              (reservations'[id].status = "expired"
                   /\ reservations[id].status # "expired")
              <=> (reservations[id].status = "active"
                   /\ reservations[id].end_time + GraceHours < now)]_vars

\* a sweep has expired one reservation and left active one whose end_time
\* plus the grace period is exactly now
C6_Witness ==
    /\ sweep_pc = "free_spots"
    /\ expired_count = 1
    /\ \E id \in ResIds :
           /\ reservations[id].status = "active"
           /\ reservations[id].end_time + GraceHours = now

\* C7: the sweep clears a spot's is_reserved only if no other active
\* reservation of that spot covers now.
C7_ClearsOnlyUncovered ==
    [][SweepFreeStep =>
          \A spot \in SpotIds :
              (spots[spot].is_reserved /\ ~spots'[spot].is_reserved)
              => ~\E id \in ResIds :
                      /\ reservations[id].spot_id = spot
                      /\ CoversNow(reservations[id])]_vars

Overlap(a, b) == a.start_time < b.end_time /\ b.start_time < a.end_time

\* C8: no spot has two active reservations with overlapping windows.
C8_NoOverlappingActive ==
    \A i \in ResIds, j \in ResIds :
        (/\ i # j
         /\ reservations[i].spot_id = reservations[j].spot_id
         /\ reservations[i].status = "active"
         /\ reservations[j].status = "active")
        => ~Overlap(reservations[i], reservations[j])

\* C9: every stored reservation has end_time > start_time, and a write
\* rejected by chk_time_order leaves the reservations table unchanged.
C9_TimeOrderEnforced ==
    [][/\ \A id \in 1..Len(reservations') :
              reservations'[id].end_time > reservations'[id].start_time
       /\ (db_op' # db_op /\ db_op' = "chk_time_order")
              => reservations' = reservations]_vars

\* a write was rejected by chk_time_order while rows are stored
C9_Witness ==
    /\ db_op = "chk_time_order"
    /\ Len(reservations) = Len(ReservationIds)

\* C10: every stored reservation's duration_hours is positive and equals
\* end_time - start_time in hours.
C10_DurationMatchesWindow ==
    \A id \in ResIds :
        /\ reservations[id].duration_hours > 0
        /\ reservations[id].duration_hours
             = reservations[id].end_time - reservations[id].start_time

\* C16: the expiry sweep changes no attribute of a reservation other than
\* its status, from 'active' to 'expired', and changes no attribute of a
\* spot other than is_reserved, from TRUE to FALSE.
C16_SweepFrame ==
    [][(SweepUpdateStep \/ SweepFreeStep) =>
          /\ Len(reservations') = Len(reservations)
          /\ \A id \in ResIds :
                 \/ reservations'[id] = reservations[id]
                 \/ /\ reservations[id].status = "active"
                    /\ reservations'[id]
                         = [reservations[id] EXCEPT !.status = "expired"]
          /\ \A spot \in SpotIds :
                 \/ spots'[spot] = spots[spot]
                 \/ /\ spots[spot].is_reserved
                    /\ spots'[spot]
                         = [spots[spot] EXCEPT !.is_reserved = FALSE]]_vars

\* a completed sweep has expired RES_001 and cleared its spot's flag (no
\* reservation was cancelled), and left RES_002 active
C16_Witness ==
    /\ sweep_pc = "idle"
    /\ Len(reservations) = 2
    /\ reservations[1].status = "expired"
    /\ ~spots[reservations[1].spot_id].is_reserved
    /\ reservations[2].status = "active"
    /\ reservations[2].spot_id # reservations[1].spot_id
    /\ spots[reservations[2].spot_id].is_reserved

\* C17: a reservation becomes 'expired' only from 'active' and only in the
\* first statement of the expiry sweep, and no statement of the sweep changes
\* a 'cancelled' or 'completed' reservation, however old its end_time.
C17_ExpiredOnlyFromActiveBySweep ==
    [][\A id \in ResIds :
          /\ (reservations'[id].status = "expired"
                 /\ reservations[id].status # "expired")
               => (SweepUpdateStep /\ reservations[id].status = "active")
          /\ ((SweepUpdateStep \/ SweepFreeStep)
                 /\ reservations[id].status \in {"cancelled", "completed"})
               => reservations'[id] = reservations[id]]_vars

\* a sweep has expired one reservation and passed over a cancelled or
\* completed one whose end_time is older than the grace period
C17_Witness ==
    /\ sweep_pc = "free_spots"
    /\ expired_count = 1
    /\ \E id \in ResIds :
           /\ reservations[id].status \in {"cancelled", "completed"}
           /\ reservations[id].end_time + GraceHours < now

----------------------------------------------------------------------------
(* Claims about ingestion *)

\* a step in which a row was inserted into sensor_data
IngestStep == Len(sensor_data') = Len(sensor_data) + 1

LastRow(table) == table[Len(table)]

\* C11: ingesting a reading never moves the last_updated of its spot to an
\* earlier timestamp than the one recorded, and a reading older than the
\* recorded last_updated leaves the spot as it was.
C11_LastUpdatedNeverRegresses ==
    [][IngestStep =>
          LET id == LastRow(sensor_data').sensor_id
          IN /\ spots'[id].last_updated >= spots[id].last_updated
             /\ LastRow(sensor_data').timestamp < spots[id].last_updated
                  => spots'[id] = spots[id]]_vars

\* the occupancy the claim derives from a reading: from the distance when
\* there is one (hundredths of a cm), else the reading's own boolean
DerivedOccupied(row) ==
    IF row.distance_cm # NoDistance
    THEN row.distance_cm < OCCUPIED_THRESHOLD_CM * 100
    ELSE row.occupied

\* C12: after a reading is ingested, the is_occupied of its spot is derived
\* from the distance (occupied iff distance < threshold) when the reading
\* carries one, and is the reading's boolean only when it carries none.
C12_OccupancyFromDistance ==
    [][IngestStep =>
          spots'[LastRow(sensor_data').sensor_id].is_occupied
              = DerivedOccupied(LastRow(sensor_data'))]_vars

\* C13: last_updated and is_occupied of a spot are written only by a step
\* that changes its occupancy; a reading that leaves the occupancy as it was
\* writes nothing to the spot.
C13_WrittenOnlyOnChange ==
    [][\A id \in SpotIds :
          spots'[id].last_updated # spots[id].last_updated
              => spots'[id].is_occupied # spots[id].is_occupied]_vars

\* the latest stored reading of a sensor, 0 when it has none
LatestOf(id) ==
    LET S == {i \in 1..Len(sensor_data) : sensor_data[i].sensor_id = id}
    IN IF S = {} THEN 0 ELSE CHOOSE i \in S : \A j \in S : j <= i

\* the (is_occupied, last_updated) pairs a spot has held: the column
\* defaults, and one per stored reading of its sensor
PairsOf(id) ==
    {<<DefaultSpot.is_occupied, DefaultSpot.last_updated>>}
    \cup {<<sensor_data[i].occupied, sensor_data[i].timestamp>> :
             i \in {j \in 1..Len(sensor_data) : sensor_data[j].sensor_id = id}}

\* C14: is_occupied and last_updated of a spot always come from one and the
\* same reading (the latest stored one of its sensor), and a reader of the
\* status view sees a pair that one reading wrote, never the occupancy of
\* one reading with the timestamp of another.
C14_NoTornRead ==
    \A id \in SpotIds :
        /\ IF LatestOf(id) = 0
           THEN <<spots[id].is_occupied, spots[id].last_updated>>
                    = <<DefaultSpot.is_occupied, DefaultSpot.last_updated>>
           ELSE <<spots[id].is_occupied, spots[id].last_updated>>
                    = <<sensor_data[LatestOf(id)].occupied,
                        sensor_data[LatestOf(id)].timestamp>>
        /\ view_rows[id].status # "none"
             => <<view_rows[id].is_occupied, view_rows[id].last_updated>>
                    \in PairsOf(id)

\* a reader saw PARK_001 between two readings that differ in both columns,
\* while its reservation was being cancelled
C14_Witness ==
    /\ view_rows["PARK_001"].status # "none"
    /\ Len(sensor_data) = 2
    /\ sensor_data[1].sensor_id = "PARK_001"
    /\ sensor_data[2].sensor_id = "PARK_001"
    /\ sensor_data[1].occupied # sensor_data[2].occupied
    /\ sensor_data[1].timestamp # sensor_data[2].timestamp
    /\ view_rows["PARK_001"].is_occupied = sensor_data[1].occupied
    /\ view_rows["PARK_001"].last_updated = sensor_data[1].timestamp
    /\ Len(reservations) = 1
    /\ reservations[1].status = "cancelled"

\* C15: ingesting a reading leaves is_reserved and is_disabled of its spot,
\* every other spot and all reservations unchanged; both statements of the
\* expiry sweep leave is_occupied and last_updated of every spot unchanged.
C15_IngestionAndSweepFrames ==
    [][/\ IngestStep =>
            LET sensor == LastRow(sensor_data').sensor_id
            IN /\ spots'[sensor].is_reserved = spots[sensor].is_reserved
               /\ spots'[sensor].is_disabled = spots[sensor].is_disabled
               /\ \A id \in SpotIds \ {sensor} : spots'[id] = spots[id]
               /\ reservations' = reservations
       /\ (SweepUpdateStep \/ SweepFreeStep) =>
            \A id \in SpotIds :
                /\ spots'[id].is_occupied = spots[id].is_occupied
                /\ spots'[id].last_updated = spots[id].last_updated]_vars

\* a reading was ingested for the disabled, reserved PARK_001 before its
\* reservation was due, and the sweep has since expired the reservation and
\* cleared the flag
C15_Witness ==
    /\ Len(sensor_data) >= 1
    /\ sensor_data[1].sensor_id = "PARK_001"
    /\ sensor_data[1].timestamp = 0
    /\ sensor_data[1].occupied
    /\ spots["PARK_001"].is_occupied
    /\ spots["PARK_001"].is_disabled
    /\ ~spots["PARK_001"].is_reserved
    /\ Len(reservations) = 1
    /\ reservations[1].spot_id = "PARK_001"
    /\ reservations[1].status = "expired"
    /\ sweep_pc = "idle"

\* C20: sensor_data is append-only: every step keeps every stored row, as it
\* was inserted and in its place.
C20_AppendOnly ==
    [][/\ Len(sensor_data') >= Len(sensor_data)
       /\ \A i \in 1..Len(sensor_data) : sensor_data'[i] = sensor_data[i]]_vars

----------------------------------------------------------------------------
(* Claims about the debouncer on given averaged readings *)

DebouncerIs(count, candidate, committed) ==
    /\ consecutive_readings = count
    /\ current_occupied = candidate
    /\ previous_occupied = committed

\* performSensorReading ran on a valid averaged reading of c cm
FedStep(c) ==
    ReadingStep /\ reading'.valid /\ reading'.distance = Frac(Cm(c), 1)

\* the status message of a commit, carrying candidate c
CommittedWith(c) ==
    /\ Len(published) = 1
    /\ published[1].topic = "status"
    /\ published[1].occupied = c

\* C21: from the initial debouncer state, the averaged readings 250, 248,
\* 252, 45, 44 cm give counter 1, 2, 3 with candidate FREE, FREE committed on
\* the 3rd; reading 4 resets the counter to 1 with candidate OCCUPIED,
\* reading 5 makes it 2, and the published state is still FREE after it.
C21_Walkthrough ==
    [][/\ (hist = <<>> /\ DebouncerIs(0, FALSE, FALSE) /\ FedStep(250))
            => (DebouncerIs(1, FALSE, FALSE)' /\ published' = <<>>)
       /\ (hist = <<FALSE>> /\ DebouncerIs(1, FALSE, FALSE) /\ FedStep(248))
            => (DebouncerIs(2, FALSE, FALSE)' /\ published' = <<>>)
       /\ (hist = <<FALSE, FALSE>> /\ DebouncerIs(2, FALSE, FALSE)
              /\ FedStep(252))
            => (DebouncerIs(3, FALSE, FALSE)' /\ CommittedWith(FALSE)')
       /\ (hist = <<FALSE, FALSE, FALSE>> /\ DebouncerIs(3, FALSE, FALSE)
              /\ FedStep(45))
            => (DebouncerIs(1, TRUE, FALSE)' /\ published' = <<>>)
       /\ (hist = <<FALSE, FALSE, FALSE, TRUE>> /\ DebouncerIs(1, TRUE, FALSE)
              /\ FedStep(44))
            => (DebouncerIs(2, TRUE, FALSE)' /\ published' = <<>>
                /\ led' = "LOW")]_vars

\* the state after the fifth reading of the walk-through
C21_Witness ==
    /\ hist = <<FALSE, FALSE, FALSE, TRUE, TRUE>>
    /\ reading = [valid |-> TRUE, distance |-> Frac(Cm(44), 1)]
    /\ DebouncerIs(2, TRUE, FALSE)
    /\ published = <<>>

----------------------------------------------------------------------------
(* Claims about the debouncer in every run of the firmware *)

\* the number of valid readings at the end of h that agree with the last one
RECURSIVE RunLength(_)
RunLength(h) ==
    IF Len(h) <= 1 THEN Len(h)
    ELSE IF h[Len(h)] # h[Len(h) - 1] THEN 1
    ELSE 1 + RunLength(SubSeq(h, 1, Len(h) - 1))

\* C22: on the reading where the counter reaches DEBOUNCE_COUNT with a
\* candidate that differs from the published state, the published state
\* becomes the candidate on that very reading (and a status message with it
\* is handed to client.publish); so a change that persists for DEBOUNCE_COUNT
\* consecutive valid readings is taken over, after exactly DEBOUNCE_COUNT
\* readings.
C22_CommitsOnReachingCount ==
    [][(ReadingStep /\ reading'.valid) =>
          /\ (consecutive_readings' = DEBOUNCE_COUNT
                 /\ current_occupied' # previous_occupied)
               => /\ previous_occupied' = current_occupied'
                  /\ Len(published') = 1
                  /\ published'[1].topic = "status"
                  /\ published'[1].occupied = current_occupied'
          /\ SameRun(hist', hist'[Len(hist')])
               => previous_occupied' = hist'[Len(hist')]
          /\ previous_occupied' # previous_occupied
               => RunLength(hist') = DEBOUNCE_COUNT]_vars

\* OCCUPIED was taken over on the third of three OCCUPIED readings that
\* followed a FREE one
C22_Witness ==
    /\ Len(hist) > DEBOUNCE_COUNT
    /\ ~hist[Len(hist) - DEBOUNCE_COUNT]
    /\ SameRun(hist, TRUE)
    /\ DebouncerIs(DEBOUNCE_COUNT, TRUE, TRUE)
    /\ led = "HIGH"
    /\ CommittedWith(TRUE)

\* C26: whenever performSensorReading has returned, a counter of at least
\* DEBOUNCE_COUNT means that the published state equals the pending
\* candidate: the two differ only while the counter is below DEBOUNCE_COUNT.
C26_CommittedWhenCounted ==
    /\ consecutive_readings >= DEBOUNCE_COUNT
         => previous_occupied = current_occupied
    /\ previous_occupied # current_occupied
         => consecutive_readings < DEBOUNCE_COUNT

\* the counter has passed DEBOUNCE_COUNT on OCCUPIED after a change, and a
\* cycle has failed since
C26_Witness ==
    /\ consecutive_readings > DEBOUNCE_COUNT
    /\ previous_occupied
    /\ current_occupied
    /\ ~reading.valid
    /\ fw_pc = "loop"

\* C27: two successive changes of the published state are separated by at
\* least DEBOUNCE_COUNT valid readings, whatever the readings are and however
\* many failed cycles lie in between.
C27_ChangesSeparated ==
    \A i \in 1..(Len(changes) - 1) :
        changes[i + 1] - changes[i] >= DEBOUNCE_COUNT

\* the published state has changed to OCCUPIED and back to FREE, the second
\* time on the DEBOUNCE_COUNT-th valid reading after the first
C27_Witness ==
    /\ Len(changes) = 2
    /\ changes[2] - changes[1] = DEBOUNCE_COUNT
    /\ changes[2] = Len(hist)
    /\ ~previous_occupied
    /\ led = "LOW"

\* the status messages among the publish calls of the last handler
StatusMessages(calls) ==
    {calls[i] : i \in {j \in 1..Len(calls) : calls[j].topic = "status"}}

\* C28: every status message the firmware publishes carries an occupied
\* value equal to (averaged distance of that reading < OCCUPIED_THRESHOLD_CM)
\* and to previous_occupied at the time of publishing; a reading publishes a
\* status message exactly when consecutive_readings >= DEBOUNCE_COUNT after
\* its update, and no other handler publishes one.
C28_StatusMessageAgrees ==
    [][/\ ReadingStep =>
            /\ \A m \in StatusMessages(published') :
                   /\ m.occupied = IsOccupied(reading'.distance)
                   /\ m.occupied = previous_occupied'
            /\ StatusMessages(published') # {}
                 <=> (reading'.valid
                      /\ consecutive_readings' >= DEBOUNCE_COUNT)
       /\ (~ReadingStep /\ published' # published)
            => StatusMessages(published') = {}]_vars

\* a status message with occupied = false, published on the third FREE
\* reading after an OCCUPIED one
C28_Witness ==
    /\ StatusMessages(published) # {}
    /\ \A m \in StatusMessages(published) : ~m.occupied
    /\ ~previous_occupied
    /\ led = "LOW"
    /\ consecutive_readings = DEBOUNCE_COUNT
    /\ Len(hist) > DEBOUNCE_COUNT
    /\ hist[Len(hist) - DEBOUNCE_COUNT]

----------------------------------------------------------------------------
(* Claims about the dashboard *)

\* C23: the status ParkingMap derives for a spot when it applies its status
\* filter equals the status of the current_parking_status view, for every
\* combination of is_disabled, is_occupied and is_reserved: a spot passes the
\* filter exactly when the view gives it the status asked for.
C23_MapStatusMatchesView ==
    filters.status # "" =>
        \A id \in SpotIds :
            id \in filteredSpots <=> SpotStatus(spots[id]) = filters.status

\* C29: the counts of the status summary partition the shown spots:
\* available + occupied + reserved = total, and every shown spot is counted
\* in exactly one of the three.
C29_CountsPartition ==
    /\ statusCounts.available + statusCounts.occupied + statusCounts.reserved
         = statusCounts.total
    /\ \A id \in filteredSpots :
           Cardinality({k \in {"available", "occupied", "reserved"} :
                           \/ k = "available" /\ CountedAvailable(spots[id])
                           \/ k = "occupied" /\ CountedOccupied(spots[id])
                           \/ k = "reserved" /\ CountedReserved(spots[id])}) = 1

----------------------------------------------------------------------------
(* Claims about concurrent writers of one spot *)

\* a completed run of the sweep has expired a reservation of the spot
SweptSpot(id) ==
    /\ sweep_pc = "idle"
    /\ \E i \in ResIds :
           reservations[i].spot_id = id /\ reservations[i].status = "expired"

\* C24: when readings are ingested for a spot while the expiry sweep clears
\* its is_reserved, in any interleaving of the INSERTs with the two
\* statements of the sweep, neither write is lost: the row holds the
\* is_occupied and last_updated of the latest reading and the is_reserved
\* of the sweep.
C24_NeitherWriteLost ==
    \A id \in SpotIds :
        /\ LatestOf(id) # 0 =>
               /\ spots[id].is_occupied = sensor_data[LatestOf(id)].occupied
               /\ spots[id].last_updated = sensor_data[LatestOf(id)].timestamp
        /\ SweptSpot(id) => ~spots[id].is_reserved

\* the sweep has expired the reservation of PARK_002 and cleared the flag,
\* and a reading taken at the hour of the sweep reports a car there
C24_Witness ==
    /\ SweptSpot("PARK_002")
    /\ LatestOf("PARK_002") # 0
    /\ sensor_data[LatestOf("PARK_002")].timestamp > 1 + GraceHours
    /\ sensor_data[LatestOf("PARK_002")].timestamp = now
    /\ sensor_data[LatestOf("PARK_002")].occupied
    /\ spots["PARK_002"].is_occupied
    /\ ~spots["PARK_002"].is_reserved

----------------------------------------------------------------------------
(* Claims about sensor_health *)

\* C25: each inserted reading updates its sensor's health row: the row exists
\* afterwards (it is created when there was none), last_data_received is the
\* reading's timestamp, battery_level and signal_strength take the reading's
\* values when it has them and keep their previous values when the reading's
\* value is NULL; the health rows of other sensors are unchanged.
C25_HealthFollowsReading ==
    [][IngestStep =>
          LET row == LastRow(sensor_data')
              old == sensor_health[row.sensor_id]
              new == sensor_health'[row.sensor_id]
          IN /\ new.present
             /\ new.last_data_received = row.timestamp
             /\ new.battery_level =
                    IF row.battery_level # NoValue THEN row.battery_level
                    ELSE IF old.present THEN old.battery_level ELSE NoValue
             /\ new.signal_strength =
                    IF row.signal_strength # NoValue THEN row.signal_strength
                    ELSE IF old.present THEN old.signal_strength ELSE NoValue
             /\ \A id \in SpotIds \ {row.sensor_id} :
                    sensor_health'[id] = sensor_health[id]]_vars

\* PARK_001 sent a battery level and a signal strength, then a new signal
\* strength and no battery level: its health row has the old battery level
\* and the new signal strength
C25_Witness ==
    /\ Len(sensor_data) = 2
    /\ sensor_data[1].sensor_id = "PARK_001"
    /\ sensor_data[2].sensor_id = "PARK_001"
    /\ sensor_data[1].battery_level = 85
    /\ sensor_data[1].signal_strength = -45
    /\ sensor_data[2].battery_level = NoValue
    /\ sensor_data[2].signal_strength = -38
    /\ sensor_health["PARK_001"].battery_level = 85
    /\ sensor_health["PARK_001"].signal_strength = -38
    /\ sensor_health["PARK_001"].last_data_received = sensor_data[2].timestamp
    /\ ~sensor_health["PARK_002"].present

----------------------------------------------------------------------------
(* Claims about repeated runs of the sweep *)

\* C30: the return value of expire_old_reservations is the number of
\* reservations the run moved from 'active' to 'expired', and a second run
\* with no intervening change and the same now returns 0 and leaves every
\* reservation and every spot unchanged.
C30_SweepIdempotent ==
    [][/\ SweepUpdateStep =>
            expired_count' =
                Cardinality({id \in ResIds :
                                /\ reservations[id].status = "active"
                                /\ reservations'[id].status = "expired"})
       /\ SweepFreeStep => reservations' = reservations
       /\ (SweepUpdateStep /\ sweep_obs \in {"first_done", "second_done"}) =>
            /\ expired_count' = 0
            /\ reservations' = reservations
            /\ spots' = spots
       /\ (SweepFreeStep /\ sweep_obs = "second_update") =>
            /\ expired_count = 0
            /\ reservations' = reservations
            /\ spots' = spots]_vars

\* a second run has just returned, after a first run that expired a
\* reservation and cleared its spot while another reservation stayed active
C30_Witness ==
    /\ sweep_obs = "second_done"
    /\ sweep_pc = "idle"
    /\ Len(reservations) = 2
    /\ reservations[1].status = "expired"
    /\ reservations[2].status = "active"
    /\ ~spots[reservations[1].spot_id].is_reserved

====
